---- MODULE Spec2Model ----
(***************************************************************************)
(* A model of factorio/blueprints.py: the EncodedBlob / Blueprint /        *)
(* BlueprintBook envelopes over a heap of Python objects (dicts, lists and  *)
(* envelope instances, addressed by reference so that aliasing is          *)
(* visible), the JSON text the codec emits and parses (as a sequence of     *)
(* tokens, whitespace included), and the caller's variables holding         *)
(* envelopes.                                                               *)
(***************************************************************************)
EXTENDS Integers, Sequences, FiniteSets, TLC

VARIABLES heap, slot, src, result, steps

vars == <<heap, slot, src, result, steps>>

\* LET x == e IN F(x), with e evaluated once, whatever the number of times
\* F uses x.
Bind(e, F(_)) == CHOOSE y \in {F(x) : x \in {e}} : TRUE

(***************************************************************************)
(* Python values.  A value is None, an int, a str or a reference to a heap  *)
(* object; one record shape for all of them.                                *)
(***************************************************************************)
None == [k |-> "none", n |-> 0, s |-> ""]

Int_(i) == [k |-> "int", n |-> i, s |-> ""]

Str(s) == [k |-> "str", n |-> 0, s |-> s]

Ref(a) == [k |-> "ref", n |-> a, s |-> ""]

IsRef(v) == v.k = "ref"

(***************************************************************************)
(* Heap objects: cls is "dict" (an OrderedDict: items in insertion order),  *)
(* "list" (items with empty keys) or the class of an envelope instance,     *)
(* whose attributes are data and version_byte.                              *)
(***************************************************************************)
Item(key, val) == [key |-> key, val |-> val]

DictObj(items) == [cls |-> "dict", items |-> items, data |-> None, version_byte |-> None]

ListObj(items) == [cls |-> "list", items |-> items, data |-> None, version_byte |-> None]

BlobObj(cls, data, vb) == [cls |-> cls, items |-> <<>>, data |-> data, version_byte |-> vb]

BlobClasses == {"EncodedBlob", "Blueprint", "BlueprintBook"}

IsDict(h, v) == IsRef(v) /\ h[v.n].cls = "dict"

IsList(h, v) == IsRef(v) /\ h[v.n].cls = "list"

IsBlob(h, v) == IsRef(v) /\ h[v.n].cls \in BlobClasses

Alloc(h, obj) == Append(h, obj)

NewRef(h) == Ref(Len(h) + 1)

\* Python truthiness of the values `data or {}` can meet.
Truthy(h, v) ==
    CASE v.k = "none" -> FALSE
      [] v.k = "int" -> v.n # 0
      [] v.k = "str" -> v.s # ""
      [] OTHER -> IF h[v.n].cls \in {"dict", "list"} THEN h[v.n].items # <<>> ELSE TRUE

(***************************************************************************)
(* OrderedDict operations on an item sequence.                              *)
(***************************************************************************)
KeyIndex(items, key) ==
    IF \E i \in 1..Len(items) : items[i].key = key
    THEN CHOOSE i \in 1..Len(items) : items[i].key = key /\ \A j \in 1..(i-1) : items[j].key # key
    ELSE 0

HasKey(items, key) == KeyIndex(items, key) # 0

\* d.get(key): None when absent.
DictGet(items, key) == IF HasKey(items, key) THEN items[KeyIndex(items, key)].val ELSE None

\* d[key] = val: an existing key keeps its place, a new key goes last.
DictSet(items, key, val) ==
    IF HasKey(items, key)
    THEN [items EXCEPT ![KeyIndex(items, key)] = Item(key, val)]
    ELSE Append(items, Item(key, val))

\* d.pop(key, None): the items without the key.
DictPop(items, key) ==
    IF HasKey(items, key)
    THEN LET i == KeyIndex(items, key) IN SubSeq(items, 1, i - 1) \o SubSeq(items, i + 1, Len(items))
    ELSE items

Keys(items) == [i \in 1..Len(items) |-> items[i].key]

\* h with the items of the dict or list at address a replaced.
SetItems(h, a, items) == [h EXCEPT ![a].items = items]

(***************************************************************************)
(* JSON text: a sequence of tokens.  Punctuation tokens carry their         *)
(* character in t; "nl" is a line break followed by n spaces, the only      *)
(* whitespace json.dumps writes with separators (",", ":") and an indent.   *)
(***************************************************************************)
P(c) == [t |-> c, n |-> 0, s |-> ""]

StrTok(s) == [t |-> "str", n |-> 0, s |-> s]

IntTok(i) == [t |-> "int", n |-> i, s |-> ""]

NullTok == [t |-> "null", n |-> 0, s |-> ""]

\* json.dumps(..., indent=2): two spaces for each level of nesting.
Indent == 2

Newline(level) == [t |-> "nl", n |-> Indent * level, s |-> ""]

IsWhitespace(tok) == tok.t = "nl"

Fail(exc) == [ok |-> FALSE, exc |-> exc, text |-> <<>>]

Text(toks) == [ok |-> TRUE, exc |-> "", text |-> toks]

RECURSIVE Dumps(_, _, _)
RECURSIVE DumpItems(_, _, _, _, _)

\* The members of a non-empty dict or list from the i-th on, each on a line
\* of its own at the given level, "," between them, ":" after a key.
DumpItems(h, items, i, level, isDict) ==
    LET head == <<Newline(level)>> \o (IF isDict THEN <<StrTok(items[i].key), P(":")>> ELSE <<>>)
    IN  Bind(Dumps(h, items[i].val, level), LAMBDA one :
            IF ~one.ok THEN one
            ELSE IF i = Len(items) THEN Text(head \o one.text)
            ELSE Bind(DumpItems(h, items, i + 1, level, isDict), LAMBDA rest :
                     IF ~rest.ok THEN rest
                     ELSE Text(head \o one.text \o <<P(",")>> \o rest.text)))

\* json.dumps(v, separators=(",", ":"), ensure_ascii=False, indent=2) of the
\* value v at nesting depth level: TypeError on an envelope instance.
Dumps(h, v, level) ==
    CASE v.k = "none" -> Text(<<NullTok>>)
      [] v.k = "int" -> Text(<<IntTok(v.n)>>)
      [] v.k = "str" -> Text(<<StrTok(v.s)>>)
      [] OTHER ->
          Bind(h[v.n], LAMBDA o :
              LET open == IF o.cls = "dict" THEN "{" ELSE "["
                  close == IF o.cls = "dict" THEN "}" ELSE "]"
              IN  IF o.cls \notin {"dict", "list"} THEN Fail("TypeError")
                  ELSE IF o.items = <<>> THEN Text(<<P(open), P(close)>>)
                  ELSE Bind(DumpItems(h, o.items, 1, level + 1, o.cls = "dict"), LAMBDA body :
                           IF ~body.ok THEN body
                           ELSE Text(<<P(open)>> \o body.text \o <<Newline(level), P(close)>>)))

json_dumps(h, v) == Dumps(h, v, 0)

(***************************************************************************)
(* json.loads(text, object_pairs_hook=collections.OrderedDict): a recursive *)
(* descent over the tokens that allocates an OrderedDict for every object   *)
(* (a repeated key keeps its first place and its last value) and a list for *)
(* every array.  Whitespace between tokens is skipped.                      *)
(***************************************************************************)
SkipWhitespace(text, pos) ==
    IF \E i \in pos..Len(text) : ~IsWhitespace(text[i])
    THEN CHOOSE i \in pos..Len(text) :
            ~IsWhitespace(text[i]) /\ \A j \in pos..(i-1) : IsWhitespace(text[j])
    ELSE Len(text) + 1

ParseFail(h) == [ok |-> FALSE, h |-> h, val |-> None, pos |-> 0]

Parsed(h, v, pos) == [ok |-> TRUE, h |-> h, val |-> v, pos |-> pos]

TokAt(text, pos) == IF pos <= Len(text) THEN text[pos].t ELSE "eof"

RECURSIVE ParseValue(_, _, _)
RECURSIVE ParseMembers(_, _, _, _)
RECURSIVE ParseElements(_, _, _, _)

\* The members of an object from pos on, acc the pairs read so far.
ParseMembers(h, text, pos, acc) ==
    Bind(SkipWhitespace(text, pos), LAMBDA k :
    Bind(SkipWhitespace(text, k + 1), LAMBDA c :
        IF TokAt(text, k) # "str" \/ TokAt(text, c) # ":" THEN ParseFail(h)
        ELSE Bind(ParseValue(h, text, c + 1), LAMBDA v :
                 IF ~v.ok THEN v
                 ELSE Bind(SkipWhitespace(text, v.pos), LAMBDA e :
                      Bind(DictSet(acc, text[k].s, v.val), LAMBDA items :
                          IF TokAt(text, e) = "," THEN ParseMembers(v.h, text, e + 1, items)
                          ELSE IF TokAt(text, e) = "}"
                               THEN Parsed(Alloc(v.h, DictObj(items)), NewRef(v.h), e + 1)
                          ELSE ParseFail(h))))))

\* The elements of an array from pos on, acc the elements read so far.
ParseElements(h, text, pos, acc) ==
    Bind(ParseValue(h, text, pos), LAMBDA v :
        IF ~v.ok THEN v
        ELSE Bind(SkipWhitespace(text, v.pos), LAMBDA e :
             Bind(Append(acc, Item("", v.val)), LAMBDA items :
                 IF TokAt(text, e) = "," THEN ParseElements(v.h, text, e + 1, items)
                 ELSE IF TokAt(text, e) = "]"
                      THEN Parsed(Alloc(v.h, ListObj(items)), NewRef(v.h), e + 1)
                 ELSE ParseFail(h))))

ParseValue(h, text, pos) ==
    Bind(SkipWhitespace(text, pos), LAMBDA p :
    Bind(SkipWhitespace(text, p + 1), LAMBDA q :
        LET t == TokAt(text, p)
        IN  CASE t = "null" -> Parsed(h, None, p + 1)
              [] t = "int" -> Parsed(h, Int_(text[p].n), p + 1)
              [] t = "str" -> Parsed(h, Str(text[p].s), p + 1)
              [] t = "{" -> IF TokAt(text, q) = "}"
                            THEN Parsed(Alloc(h, DictObj(<<>>)), NewRef(h), q + 1)
                            ELSE ParseMembers(h, text, p + 1, <<>>)
              [] t = "[" -> IF TokAt(text, q) = "]"
                            THEN Parsed(Alloc(h, ListObj(<<>>)), NewRef(h), q + 1)
                            ELSE ParseElements(h, text, p + 1, <<>>)
              [] OTHER -> ParseFail(h)))

\* json.loads: one value, then nothing but whitespace.
json_loads(h, text) ==
    Bind(ParseValue(h, text, 1), LAMBDA v :
        IF v.ok /\ SkipWhitespace(text, v.pos) > Len(text) THEN v ELSE ParseFail(h))

(***************************************************************************)
(* The outcome of a method: the heap it leaves, the exception it raised     *)
(* ("" when it returned), and what it returned: a value, a text, or for     *)
(* materials() the tally.                                                   *)
(***************************************************************************)
Ok(h, v) == [h |-> h, exc |-> "", val |-> v, text |-> <<>>, tally |-> <<>>]

OkText(h, text) == [h |-> h, exc |-> "", val |-> None, text |-> text, tally |-> <<>>]

OkTally(h, tally) == [h |-> h, exc |-> "", val |-> None, text |-> <<>>, tally |-> tally]

Raise(h, exc) == [h |-> h, exc |-> exc, val |-> None, text |-> <<>>, tally |-> <<>>]

(***************************************************************************)
(* class EncodedBlob                                                        *)
(***************************************************************************)

\* EncodedBlob.__init__(data, version_byte): of another envelope, a shallow
\* copy of its document (a new top-level dict holding the same values) and
\* its version byte; of anything else, `data or {}`: the caller's object
\* itself unless it is falsy.
EncodedBlob_init(h, cls, data, version_byte) ==
    IF IsBlob(h, data)
    THEN Bind(Alloc(h, DictObj(h[h[data.n].data.n].items)), LAMBDA h1 :
             Ok(Alloc(h1, BlobObj(cls, NewRef(h), h[data.n].version_byte)), NewRef(h1)))
    ELSE IF Truthy(h, data)
         THEN Ok(Alloc(h, BlobObj(cls, data, version_byte)), NewRef(h))
         ELSE Bind(Alloc(h, DictObj(<<>>)), LAMBDA h1 :
                  Ok(Alloc(h1, BlobObj(cls, NewRef(h), version_byte)), NewRef(h1)))

\* The items of the envelope's document (self.data).
DataItems(h, self) == h[h[self.n].data.n].items

\* A data_type that takes the last key of the document, not the first.
data_type_last(h, self) ==
    Bind(DataItems(h, self), LAMBDA items :
        IF items = <<>> THEN Raise(h, "StopIteration")
        ELSE Ok(h, Str(items[Len(items)].key)))

\* EncodedBlob.data_type: next(iter(self.data.items())), the first key;
\* StopIteration on an empty document.
data_type(h, self) ==
    Bind(DataItems(h, self), LAMBDA items :
        IF items = <<>> THEN Raise(h, "StopIteration")
        ELSE Ok(h, Str(items[1].key)))

\* EncodedBlob.inner_data: self.data[self.data_type].
inner_data(h, self) ==
    Bind(data_type(h, self), LAMBDA t :
        IF t.exc # "" THEN t ELSE Ok(h, DictGet(DataItems(h, self), t.val.s)))

\* A __getattr__ that subscripts, self.inner_data[attr]: KeyError when the
\* field is absent.
getattr_subscript(h, self, attr) ==
    Bind(inner_data(h, self), LAMBDA p :
        IF p.exc # "" THEN p
        ELSE IF ~IsDict(h, p.val) THEN Raise(h, "TypeError")
        ELSE IF ~HasKey(h[p.val.n].items, attr) THEN Raise(h, "KeyError")
        ELSE Ok(h, DictGet(h[p.val.n].items, attr)))

\* EncodedBlob.__getattr__(attr): self.inner_data.get(attr).
getattr(h, self, attr) ==
    Bind(inner_data(h, self), LAMBDA p :
        IF p.exc # "" THEN p
        ELSE IF ~IsDict(h, p.val) THEN Raise(h, "AttributeError")
        ELSE Ok(h, DictGet(h[p.val.n].items, attr)))

\* EncodedBlob.update(key, value): self.data[self.data_type].update({key: value}).
update(h, self, key, value) ==
    Bind(inner_data(h, self), LAMBDA p :
        IF p.exc # "" THEN p
        ELSE IF ~IsDict(h, p.val) THEN Raise(h, "AttributeError")
        ELSE Ok(SetItems(h, p.val.n, DictSet(h[p.val.n].items, key, value)), None))

\* A set_name that writes beside the root key: self.data['label'] = new_name.
set_name_beside_root(h, self, new_name) ==
    Ok(SetItems(h, h[self.n].data.n, DictSet(DataItems(h, self), "label", Str(new_name))), None)

\* EncodedBlob.set_name(new_name): self.data[self.data_type]['label'] = new_name.
set_name(h, self, new_name) ==
    Bind(inner_data(h, self), LAMBDA p :
        IF p.exc # "" THEN p
        ELSE IF ~IsDict(h, p.val) THEN Raise(h, "TypeError")
        ELSE Ok(SetItems(h, p.val.n, DictSet(h[p.val.n].items, "label", Str(new_name))), None))

\* The keywords EncodedBlob.to_json_string passes to json.dumps itself: one
\* of them in **kwargs is a TypeError (multiple values for a keyword).
DumpsKeywords == {"separators", "ensure_ascii", "indent"}

\* The shallow copy of the document that to_json_string dumps, the version
\* byte added under "version_byte" when there is one.
DataWithVersionByte(h, self) ==
    Bind(h[self.n].version_byte, LAMBDA vb :
        IF vb # None THEN DictSet(DataItems(h, self), "version_byte", vb)
        ELSE DataItems(h, self))

\* EncodedBlob.to_json_string(**kwargs): a shallow copy of the document, the
\* version byte added under "version_byte" when there is one, dumped with
\* separators (",", ":") and indent=2.
EncodedBlob_to_json_string(h, self, kwargs) ==
    IF kwargs \cap DumpsKeywords # {} THEN Raise(h, "TypeError")
    ELSE Bind(Alloc(h, DictObj(DataWithVersionByte(h, self))), LAMBDA h1 :
         Bind(json_dumps(h1, NewRef(h)), LAMBDA json_str :
             IF ~json_str.ok THEN Raise(h, json_str.exc)
             ELSE OkText(h, json_str.text)))

(***************************************************************************)
(* class Blueprint(EncodedBlob)                                             *)
(***************************************************************************)
RECURSIVE remove_entity_numbers_loop(_, _, _, _)

\* The loop of remove_entity_numbers from the i-th entity on.
remove_entity_numbers_loop(h, entities, i, next_number) ==
    IF i > Len(entities) THEN Ok(h, None)
    ELSE Bind(entities[i].val, LAMBDA entity :
             IF ~IsDict(h, entity) THEN Raise(h, "AttributeError")
             ELSE Bind(DictGet(h[entity.n].items, "entity_number"), LAMBDA number :
                  Bind(SetItems(h, entity.n, DictPop(h[entity.n].items, "entity_number")), LAMBDA h1 :
                      IF ~(number = Int_(next_number) \/ number = None)
                      THEN Raise(h1, "AssertionError")
                      ELSE remove_entity_numbers_loop(h1, entities, i + 1, next_number + 1))))

\* A remove_entity_numbers whose next_number counts from 0.
remove_entity_numbers_from_0(h, self) ==
    Bind(getattr(h, self, "entities"), LAMBDA e :
        IF e.exc # "" THEN e
        ELSE IF ~IsList(h, e.val) THEN Raise(h, "TypeError")
        ELSE Bind(h[e.val.n].items, LAMBDA entities :
                 remove_entity_numbers_loop(h, entities, 1, 0)))

\* Blueprint.remove_entity_numbers(): pops entity_number from every entity,
\* asserting each popped number is next_number, which counts entities from 1.
remove_entity_numbers(h, self) ==
    Bind(getattr(h, self, "entities"), LAMBDA e :
        IF e.exc # "" THEN e
        ELSE IF ~IsList(h, e.val) THEN Raise(h, "TypeError")
        ELSE Bind(h[e.val.n].items, LAMBDA entities :
                 remove_entity_numbers_loop(h, entities, 1, 1)))

RECURSIVE replace_entity_numbers_loop(_, _, _, _)

replace_entity_numbers_loop(h, entities, i, number) ==
    IF i > Len(entities) THEN Ok(h, None)
    ELSE Bind(entities[i].val, LAMBDA entity :
             IF ~IsDict(h, entity) THEN Raise(h, "TypeError")
             ELSE Bind(SetItems(h, entity.n,
                                DictSet(h[entity.n].items, "entity_number", Int_(number))),
                       LAMBDA h1 : replace_entity_numbers_loop(h1, entities, i + 1, number + 1)))

\* A replace_entity_numbers whose number counts from 0.
replace_entity_numbers_from_0(h, self) ==
    Bind(getattr(h, self, "entities"), LAMBDA e :
        IF e.exc # "" THEN e
        ELSE IF ~IsList(h, e.val) THEN Raise(h, "TypeError")
        ELSE Bind(h[e.val.n].items, LAMBDA entities :
                 replace_entity_numbers_loop(h, entities, 1, 0)))

\* Blueprint.replace_entity_numbers(): entity["entity_number"] = number for
\* every entity, number counting from 1.
replace_entity_numbers(h, self) ==
    Bind(getattr(h, self, "entities"), LAMBDA e :
        IF e.exc # "" THEN e
        ELSE IF ~IsList(h, e.val) THEN Raise(h, "TypeError")
        ELSE Bind(h[e.val.n].items, LAMBDA entities :
                 replace_entity_numbers_loop(h, entities, 1, 1)))

\* mats[name] = mats.setdefault(name, 0) + 1 on the tally (name, count) pairs.
TallyAdd(mats, name) ==
    IF \E j \in 1..Len(mats) : mats[j].name = name
    THEN [j \in 1..Len(mats) |->
             IF mats[j].name = name THEN [mats[j] EXCEPT !.count = @ + 1] ELSE mats[j]]
    ELSE Append(mats, [name |-> name, count |-> 1])

RECURSIVE materials_loop(_, _, _, _)

materials_loop(h, entities, i, mats) ==
    IF i > Len(entities) THEN OkTally(h, mats)
    ELSE Bind(entities[i].val, LAMBDA ent :
             IF ~IsDict(h, ent) THEN Raise(h, "TypeError")
             ELSE IF ~HasKey(h[ent.n].items, "name") THEN Raise(h, "KeyError")
             ELSE Bind(DictGet(h[ent.n].items, "name"), LAMBDA name :
                  Bind(TallyAdd(mats, name), LAMBDA mats1 :
                      materials_loop(h, entities, i + 1, mats1))))

\* Blueprint.materials(): the count of each entity name, ent["name"] a
\* KeyError when an entity has none.
materials(h, self) ==
    Bind(getattr(h, self, "entities"), LAMBDA e :
        IF e.exc # "" THEN e
        ELSE IF ~IsList(h, e.val) THEN Raise(h, "TypeError")
        ELSE Bind(h[e.val.n].items, LAMBDA entities :
                 materials_loop(h, entities, 1, <<>>)))

(***************************************************************************)
(* class BlueprintBook(EncodedBlob)                                         *)
(***************************************************************************)
RECURSIVE objectify_map(_, _, _, _, _)

\* list(map(lambda data: Blueprint(data=data, version_byte=...), blueprints))
\* from the i-th element on: acc holds the Blueprints made so far.
objectify_map(h, blueprints, i, acc, version_byte) ==
    IF i > Len(blueprints) THEN [h |-> h, items |-> acc]
    ELSE Bind(EncodedBlob_init(h, "Blueprint", blueprints[i].val, version_byte), LAMBDA b :
         Bind(Append(acc, Item("", b.val)), LAMBDA acc1 :
             objectify_map(b.h, blueprints, i + 1, acc1, version_byte)))

\* BlueprintBook.objectify_blueprints(): the list under
\* self.data["blueprint_book"]["blueprints"] is replaced by a new list of
\* Blueprint instances made from its elements.
objectify_blueprints(h, self) ==
    Bind(DataItems(h, self), LAMBDA data :
        IF ~HasKey(data, "blueprint_book") THEN Raise(h, "KeyError")
        ELSE Bind(DictGet(data, "blueprint_book"), LAMBDA book :
            IF ~IsDict(h, book) THEN Raise(h, "TypeError")
            ELSE IF ~HasKey(h[book.n].items, "blueprints") THEN Raise(h, "KeyError")
            ELSE Bind(DictGet(h[book.n].items, "blueprints"), LAMBDA blueprints :
                IF ~IsList(h, blueprints) THEN Raise(h, "TypeError")
                ELSE Bind(objectify_map(h, h[blueprints.n].items, 1, <<>>,
                                        h[self.n].version_byte), LAMBDA m :
                     Bind(Alloc(m.h, ListObj(m.items)), LAMBDA h1 :
                         Ok(SetItems(h1, book.n,
                                     DictSet(h1[book.n].items, "blueprints", NewRef(m.h))),
                            None))))))

\* The payload of an empty book, as BlueprintBook.__init__ fills it in.
EmptyBookItems(blueprints) ==
    << Item("item", Str("blueprint-book")), Item("blueprints", blueprints),
       Item("active_index", Int_(0)), Item("label", Str("Empty Blueprint Book")),
       Item("version", Int_(0)) >>

\* self.data = {"blueprint_book": {... "blueprints": [] ...}}: a new list, a
\* new payload holding it and a new document holding the payload.
EmptyBook(h, self) ==
    Bind(Alloc(h, ListObj(<<>>)), LAMBDA h1 :
    Bind(Alloc(h1, DictObj(EmptyBookItems(NewRef(h)))), LAMBDA h2 :
    Bind(Alloc(h2, DictObj(<<Item("blueprint_book", NewRef(h1))>>)), LAMBDA h3 :
        [h3 EXCEPT ![self.n].data = NewRef(h2)])))

\* BlueprintBook.__init__(data, version_byte): EncodedBlob.__init__, the
\* document of an empty book when self.data is empty, then
\* objectify_blueprints().
BlueprintBook_init(h, data, version_byte) ==
    Bind(EncodedBlob_init(h, "BlueprintBook", data, version_byte), LAMBDA b :
    Bind(IF DataItems(b.h, b.val) = <<>> THEN EmptyBook(b.h, b.val) ELSE b.h, LAMBDA h4 :
    Bind(objectify_blueprints(h4, b.val), LAMBDA o :
        IF o.exc # "" THEN o ELSE Ok(o.h, b.val))))

\* A flattening that takes each blueprint's payload, blueprint.inner_data,
\* instead of its document.
FlattenItems_inner_data(h, blueprints) ==
    [i \in 1..Len(blueprints) |-> Item("", inner_data(h, blueprints[i].val).val)]

\* list(map(lambda blueprint: blueprint.data, blueprints)): None when an
\* element is no envelope instance (it has no attribute data).
FlattenItems(h, blueprints) ==
    [i \in 1..Len(blueprints) |-> Item("", h[blueprints[i].val.n].data)]

\* The body of BlueprintBook.to_json_string once its list of blueprints is
\* at hand: the list is replaced by the blueprints' documents, the book is
\* dumped by EncodedBlob.to_json_string, and objectify_blueprints() follows
\* when the dump returned.
FlattenDumpObjectify(h, self, kwargs, book, blueprints) ==
    Bind(Alloc(h, ListObj(FlattenItems(h, h[blueprints.n].items))), LAMBDA h1 :
    Bind(SetItems(h1, book.n, DictSet(h1[book.n].items, "blueprints", NewRef(h))), LAMBDA h2 :
    Bind(EncodedBlob_to_json_string(h2, self, kwargs), LAMBDA json_str :
        IF json_str.exc # "" THEN json_str
        ELSE Bind(objectify_blueprints(json_str.h, self), LAMBDA o :
                 IF o.exc # "" THEN o ELSE OkText(o.h, json_str.text)))))

\* BlueprintBook.to_json_string(**kwargs): the Blueprints under blueprints
\* are replaced by their documents, the book is dumped by
\* EncodedBlob.to_json_string, and objectify_blueprints() follows.
BlueprintBook_to_json_string(h, self, kwargs) ==
    Bind(DataItems(h, self), LAMBDA data :
        IF ~HasKey(data, "blueprint_book") THEN Raise(h, "KeyError")
        ELSE Bind(DictGet(data, "blueprint_book"), LAMBDA book :
            IF ~IsDict(h, book) THEN Raise(h, "TypeError")
            ELSE IF ~HasKey(h[book.n].items, "blueprints") THEN Raise(h, "KeyError")
            ELSE Bind(DictGet(h[book.n].items, "blueprints"), LAMBDA blueprints :
                IF ~IsList(h, blueprints) THEN Raise(h, "TypeError")
                ELSE IF \E i \in 1..Len(h[blueprints.n].items) :
                            ~IsBlob(h, h[blueprints.n].items[i].val)
                     THEN Raise(h, "AttributeError")
                ELSE FlattenDumpObjectify(h, self, kwargs, book, blueprints))))

RECURSIVE remove_indexes_loop(_, _, _, _)

remove_indexes_loop(h, blueprints, i, next_number) ==
    IF i > Len(blueprints) THEN Ok(h, None)
    ELSE Bind(blueprints[i].val, LAMBDA blueprint :
             IF ~IsBlob(h, blueprint) THEN Raise(h, "AttributeError")
             ELSE Bind(h[blueprint.n].data.n, LAMBDA d :
                  Bind(DictGet(h[d].items, "index"), LAMBDA number :
                  Bind(SetItems(h, d, DictPop(h[d].items, "index")), LAMBDA h1 :
                      IF ~(number = Int_(next_number) \/ number = None)
                      THEN Raise(h1, "AssertionError")
                      ELSE remove_indexes_loop(h1, blueprints, i + 1, next_number + 1)))))

\* BlueprintBook.remove_indexes(): pops index from every blueprint's
\* document, asserting each popped number is next_number, counting from 0.
remove_indexes(h, self) ==
    Bind(getattr(h, self, "blueprints"), LAMBDA b :
        IF b.exc # "" THEN b
        ELSE IF ~IsList(h, b.val) THEN Raise(h, "TypeError")
        ELSE Bind(h[b.val.n].items, LAMBDA blueprints :
                 remove_indexes_loop(h, blueprints, 1, 0)))

RECURSIVE replace_indexes_loop(_, _, _, _)

replace_indexes_loop(h, blueprints, i, number) ==
    IF i > Len(blueprints) THEN Ok(h, None)
    ELSE Bind(blueprints[i].val, LAMBDA blueprint :
             IF ~IsBlob(h, blueprint) THEN Raise(h, "AttributeError")
             ELSE Bind(h[blueprint.n].data.n, LAMBDA d :
                  Bind(SetItems(h, d, DictSet(h[d].items, "index", Int_(number))), LAMBDA h1 :
                      replace_indexes_loop(h1, blueprints, i + 1, number + 1))))

\* BlueprintBook.replace_indexes(): blueprint.data["index"] = number for
\* every blueprint, number counting from 0.
replace_indexes(h, self) ==
    Bind(getattr(h, self, "blueprints"), LAMBDA b :
        IF b.exc # "" THEN b
        ELSE IF ~IsList(h, b.val) THEN Raise(h, "TypeError")
        ELSE Bind(h[b.val.n].items, LAMBDA blueprints :
                 replace_indexes_loop(h, blueprints, 1, 0)))

\* BlueprintBook.add_blueprint(in_blueprint): the object passed in is
\* appended to the list under self.data["blueprint_book"]["blueprints"].
add_blueprint(h, self, in_blueprint) ==
    Bind(DataItems(h, self), LAMBDA data :
        IF ~HasKey(data, "blueprint_book") THEN Raise(h, "KeyError")
        ELSE Bind(DictGet(data, "blueprint_book"), LAMBDA book :
            IF ~IsDict(h, book) THEN Raise(h, "TypeError")
            ELSE IF ~HasKey(h[book.n].items, "blueprints") THEN Raise(h, "KeyError")
            ELSE Bind(DictGet(h[book.n].items, "blueprints"), LAMBDA blueprints :
                IF ~IsList(h, blueprints) THEN Raise(h, "AttributeError")
                ELSE Ok(SetItems(h, blueprints.n,
                                 Append(h[blueprints.n].items, Item("", in_blueprint))),
                        None))))

(***************************************************************************)
(* The codec: exchange strings and JSON strings.  An exchange string is the *)
(* version byte followed by base64(zlib(text)); zlib and base64 are left    *)
(* opaque: the stream is a header token carrying the compression level and  *)
(* then the tokens of the text it decompresses to.                          *)
(***************************************************************************)
\* zlib.compress(..., 9)
CompressionLevel == 9

VersionByteTok(c) == [t |-> "version_byte", n |-> 0, s |-> c]

Z64Tok(level) == [t |-> "z64", n |-> level, s |-> ""]

\* base64.b64encode(zlib.compress(text.encode("utf-8"), level))
Z64Encode(text, level) == <<Z64Tok(level)>> \o text

\* zlib.decompress(base64.b64decode(stream)).decode("utf8")
Z64Decode(stream) ==
    IF stream # <<>> /\ stream[1].t = "z64" THEN Text(Tail(stream)) ELSE Fail("zlib.error")

\* The overriding method of the instance's class.
to_json_string(h, self, kwargs) ==
    IF h[self.n].cls = "BlueprintBook"
    THEN BlueprintBook_to_json_string(h, self, kwargs)
    ELSE EncodedBlob_to_json_string(h, self, kwargs)

\* cls(data=data, version_byte=version_byte)
Construct(h, cls, data, version_byte) ==
    IF cls = "BlueprintBook"
    THEN BlueprintBook_init(h, data, version_byte)
    ELSE EncodedBlob_init(h, cls, data, version_byte)

\* EncodedBlob.to_exchange_string(**kwargs): RuntimeError without a version
\* byte, else version_byte + b64encode(compress(to_json_string(**kwargs), 9)).
to_exchange_string(h, self, kwargs) ==
    IF h[self.n].version_byte = None THEN Raise(h, "RuntimeError")
    ELSE Bind(to_json_string(h, self, kwargs), LAMBDA json_str :
             IF json_str.exc # "" THEN json_str
             ELSE OkText(json_str.h, <<VersionByteTok(h[self.n].version_byte.s)>>
                                         \o Z64Encode(json_str.text, CompressionLevel)))

\* EncodedBlob.from_exchange_string(exchange_str)
from_exchange_string(h, cls, exchange_str) ==
    IF exchange_str = <<>> THEN Raise(h, "IndexError")
    ELSE Bind(Z64Decode(Tail(exchange_str)), LAMBDA json_str :
             IF ~json_str.ok THEN Raise(h, json_str.exc)
             ELSE Bind(json_loads(h, json_str.text), LAMBDA data :
                      IF ~data.ok THEN Raise(h, "JSONDecodeError")
                      ELSE Construct(data.h, cls, data.val, Str(exchange_str[1].s))))

\* EncodedBlob.from_json_string(json_str): the parsed document loses its
\* "version_byte" member, which becomes the version byte (None without one).
from_json_string(h, cls, json_str) ==
    Bind(json_loads(h, json_str), LAMBDA data :
        IF ~data.ok THEN Raise(h, "JSONDecodeError")
        ELSE IF ~IsDict(data.h, data.val) THEN Raise(data.h, "AttributeError")
        ELSE Bind(data.h[data.val.n].items, LAMBDA items :
             Bind(SetItems(data.h, data.val.n, DictPop(items, "version_byte")), LAMBDA h1 :
                 Construct(h1, cls, data.val, DictGet(items, "version_byte")))))

(***************************************************************************)
(* Inputs: compact JSON texts (no whitespace), as the game writes them.     *)
(***************************************************************************)
RECURSIVE JoinTexts(_)

\* The texts of a sequence with "," between them.
JoinTexts(texts) ==
    IF texts = <<>> THEN <<>>
    ELSE IF Len(texts) = 1 THEN texts[1]
    ELSE texts[1] \o <<P(",")>> \o JoinTexts(Tail(texts))

JMember(key, text) == <<StrTok(key), P(":")>> \o text

JObject(members) == <<P("{")>> \o JoinTexts(members) \o <<P("}")>>

JArray(elements) == <<P("[")>> \o JoinTexts(elements) \o <<P("]")>>

JStr(s) == <<StrTok(s)>>

JInt(i) == <<IntTok(i)>>

\* The most entities in an input blueprint, and the largest entity_number.
MaxEntities == 3

EntityName(i) == IF i % 2 = 1 THEN "inserter" ELSE "chest"

\* The i-th entity of an input: entity_number num (0: the field is absent)
\* and a name.
EntityText(i, num) ==
    JObject((IF num > 0 THEN <<JMember("entity_number", JInt(num))>> ELSE <<>>)
            \o <<JMember("name", JStr(EntityName(i)))>>)

\* A blueprint document whose entities carry the numbers nums.
BlueprintText(nums) ==
    JObject(<<JMember("blueprint", JObject(<<
        JMember("entities", JArray([i \in 1..Len(nums) |-> EntityText(i, nums[i])])),
        JMember("label", JStr("bp")) >>)) >>)

\* A blueprint document with no entities field, and an unknown field.
BareBlueprintText ==
    JObject(<<JMember("blueprint", JObject(<<
        JMember("label", JStr("bare")), JMember("unknown", JInt(7)) >>)) >>)

Numberings == UNION {[1..n -> 0..MaxEntities] : n \in 0..MaxEntities}

NumberingInputs == {BlueprintText(nums) : nums \in Numberings} \cup {BareBlueprintText}

\* A nested entry of a book: a blueprint document, index idx beside its root
\* key when idx >= 0.
NestedText(label, idx) ==
    JObject(<<JMember("blueprint", JObject(<<
                 JMember("label", JStr(label)), JMember("unknown", JInt(7)) >>))>>
            \o (IF idx >= 0 THEN <<JMember("index", JInt(idx))>> ELSE <<>>))

BookText(nested) ==
    JObject(<<JMember("blueprint_book", JObject(<<
        JMember("blueprints", JArray(nested)),
        JMember("item", JStr("blueprint-book")),
        JMember("label", JStr("book")) >>)) >>)

\* A book document with no blueprints field.
BareBookText ==
    JObject(<<JMember("blueprint_book", JObject(<<JMember("label", JStr("book"))>>)) >>)

BookInputs ==
    { BookText(<<>>),
      BookText(<<NestedText("p", 0), NestedText("q", 1)>>),
      BookText(<<NestedText("p", -1), NestedText("q", -1)>>),
      BookText(<<NestedText("p", 1), NestedText("q", 0)>>),
      BareBookText }

EnvelopeInputs ==
    { BlueprintText(<<1, 2>>), BlueprintText(<<0, 0>>), BlueprintText(<<>>), BareBlueprintText }

\* The exchange string of a text: the version byte "0" and the stream.
WireString(text) == <<VersionByteTok("0")>> \o Z64Encode(text, CompressionLevel)

(***************************************************************************)
(* The state machine.  heap is the object heap; slot the caller's           *)
(* variables, each None or a reference to an envelope; result the outcome   *)
(* of the last call; steps the number of calls made.  src is history: the   *)
(* text each slot's envelope was decoded from, while no call has changed a  *)
(* document since, and whether every document read in was an envelope of   *)
(* one top-level key.                                                       *)
(***************************************************************************)
Slots == {1, 2}

\* The most calls made in one run.
MaxSteps == 4

\* The envelopes of a heap, and whether each has a document of one key.
Blobs(h) == {a \in 1..Len(h) : h[a].cls \in BlobClasses}

OneKeyEach(h) == \A a \in Blobs(h) : Len(h[h[a].data.n].items) = 1

NoSrc == [kind |-> "none", text |-> <<>>, plain |-> TRUE]

Src(kind, text, plain) == [kind |-> kind, text |-> text, plain |-> plain]

ClassOf(s) == IF IsRef(slot[s]) THEN heap[slot[s].n].cls ELSE "none"

\* The items of each element of the collection an envelope's numbering
\* methods walk: the entities of a Blueprint, the documents of the
\* blueprints of a BlueprintBook.
ElementItems(h, v) ==
    IF IsDict(h, v) THEN h[v.n].items
    ELSE IF IsBlob(h, v) THEN h[h[v.n].data.n].items
    ELSE <<>>

Collection(h, self, attr) ==
    Bind(getattr(h, self, attr), LAMBDA c :
        IF c.exc = "" /\ IsList(h, c.val)
        THEN [i \in 1..Len(h[c.val.n].items) |-> ElementItems(h, h[c.val.n].items[i].val)]
        ELSE <<>>)

\* The record of a call: the method, the slot of the envelope it was called
\* on, its outcome, and history: before, the items of the elements of the
\* collection it walks as they were when it was called.
Res(op, s, r, before) ==
    [op |-> op, self |-> s, exc |-> r.exc, text |-> r.text, tally |-> r.tally,
     val |-> r.val, before |-> before]

\* A call of a method that builds no envelope: the heap it leaves and its
\* outcome; mutates says whether it may change a document.
Call(op, s, r, before, mutates) ==
    /\ steps < MaxSteps
    /\ heap' = r.h
    /\ result' = Res(op, s, r, before)
    /\ src' = IF mutates THEN [x \in Slots |-> [src[x] EXCEPT !.kind = "none", !.text = <<>>]] ELSE src
    /\ steps' = steps + 1
    /\ UNCHANGED slot

\* A call of a constructor or class method whose result is assigned to slot s
\* (which keeps its value when the call raises).
Build(op, s, r, kind, text, plain) ==
    /\ steps < MaxSteps
    /\ heap' = r.h
    /\ result' = Res(op, s, r, <<>>)
    /\ slot' = IF r.exc = "" THEN [slot EXCEPT ![s] = r.val] ELSE slot
    /\ src' = IF r.exc = "" THEN [src EXCEPT ![s] = Src(kind, text, plain)] ELSE src
    /\ steps' = steps + 1

UpdateKeys == {"version", "label"}

UpdateValues == {Int_(1), None}

Names == {"renamed"}

KwargsInputs == {{}, {"indent"}}

Update(s, key, value) ==
    /\ IsRef(slot[s])
    /\ \E r \in {update(heap, slot[s], key, value)} : Call("update", s, r, <<>>, TRUE)

SetName(s, name) ==
    /\ IsRef(slot[s])
    /\ \E r \in {set_name(heap, slot[s], name)} : Call("set_name", s, r, <<>>, TRUE)

DataType(s) ==
    /\ IsRef(slot[s])
    /\ \E r \in {data_type(heap, slot[s])} : Call("data_type", s, r, <<>>, FALSE)

\* Reading slot[s].attr; the record's history holds the name read.
GetAttr(s, attr) ==
    /\ IsRef(slot[s])
    /\ \E r \in {getattr(heap, slot[s], attr)} :
          Call("getattr", s, r, <<<<Item(attr, None)>>>>, FALSE)

ToJsonString(s, kwargs) ==
    /\ IsRef(slot[s])
    /\ \E r \in {to_json_string(heap, slot[s], kwargs)} :
          Call("to_json_string", s, r, <<>>, FALSE)

ToExchangeString(s, kwargs) ==
    /\ IsRef(slot[s])
    /\ \E r \in {to_exchange_string(heap, slot[s], kwargs)} :
          Call("to_exchange_string", s, r, <<>>, FALSE)

RemoveEntityNumbers(s) ==
    /\ ClassOf(s) = "Blueprint"
    /\ \E r \in {remove_entity_numbers(heap, slot[s])} :
          Call("remove_entity_numbers", s, r, Collection(heap, slot[s], "entities"), TRUE)

ReplaceEntityNumbers(s) ==
    /\ ClassOf(s) = "Blueprint"
    /\ \E r \in {replace_entity_numbers(heap, slot[s])} :
          Call("replace_entity_numbers", s, r, Collection(heap, slot[s], "entities"), TRUE)

Materials(s) ==
    /\ ClassOf(s) = "Blueprint"
    /\ \E r \in {materials(heap, slot[s])} :
          Call("materials", s, r, Collection(heap, slot[s], "entities"), FALSE)

RemoveIndexes(s) ==
    /\ ClassOf(s) = "BlueprintBook"
    /\ \E r \in {remove_indexes(heap, slot[s])} :
          Call("remove_indexes", s, r, Collection(heap, slot[s], "blueprints"), TRUE)

ReplaceIndexes(s) ==
    /\ ClassOf(s) = "BlueprintBook"
    /\ \E r \in {replace_indexes(heap, slot[s])} :
          Call("replace_indexes", s, r, Collection(heap, slot[s], "blueprints"), TRUE)

\* book.add_blueprint(bp), bp the Blueprint the caller holds in slot b.
AddBlueprint(s, b) ==
    /\ ClassOf(s) = "BlueprintBook"
    /\ ClassOf(b) = "Blueprint"
    /\ \E r \in {add_blueprint(heap, slot[s], slot[b])} :
          Call("add_blueprint", s, r, Collection(heap, slot[s], "blueprints"), TRUE)

\* slot b = cls(slot a): the copy constructor, of the class of a.
Copy(a, b) ==
    /\ IsRef(slot[a])
    /\ slot[b] = None
    /\ \E r \in {Construct(heap, ClassOf(a), slot[a], Str("0"))} :
          Build("copy", b, r, "copy", <<>>, src[a].plain)

\* slot s = Blueprint(): the default constructor.
NewEmpty(s) ==
    /\ slot[s] = None
    /\ \E r \in {Construct(heap, "Blueprint", None, Str("0"))} :
          Build("new", s, r, "new", <<>>, FALSE)

\* slot s = cls.from_exchange_string(text) of the exchange string the last
\* call returned, cls the class of the envelope that wrote it.
Redecode(s) ==
    /\ result.op = "to_exchange_string" /\ result.exc = "" /\ result.self = s
    /\ \E r \in {from_exchange_string(heap, ClassOf(s), result.text)} :
          Build("from_exchange_string", s, r, "wire", result.text, src[s].plain)

\* The same of the JSON string the last call returned.
RedecodeJson(s) ==
    /\ result.op = "to_json_string" /\ result.exc = "" /\ result.self = s
    /\ \E r \in {from_json_string(heap, ClassOf(s), result.text)} :
          Build("from_json_string", s, r, "json", result.text, src[s].plain)

\* The state after slot s = cls.from_exchange_string(text) / from_json_string
\* in a fresh program.
Loaded(s, cls, kind, text) ==
    \E r \in {IF kind = "wire" THEN from_exchange_string(<<>>, cls, text)
              ELSE from_json_string(<<>>, cls, text)} :
    \E plain \in {OneKeyEach(r.h)} :
        /\ heap = r.h
        /\ slot = [x \in Slots |-> IF x = s /\ r.exc = "" THEN r.val ELSE None]
        /\ src = [x \in Slots |-> IF x = s /\ r.exc = "" THEN Src(kind, text, plain) ELSE NoSrc]
        /\ result = Res(IF kind = "wire" THEN "from_exchange_string" ELSE "from_json_string",
                        s, r, <<>>)
        /\ steps = 0

(***************************************************************************)
(* Spec: one envelope decoded from an exchange string, its copies, and the  *)
(* calls of EncodedBlob and Blueprint on them.                              *)
(***************************************************************************)
Init ==
    \E text \in {WireString(t) : t \in EnvelopeInputs} : Loaded(1, "Blueprint", "wire", text)

Next ==
    \/ \E s \in Slots : \E key \in UpdateKeys : \E value \in UpdateValues : Update(s, key, value)
    \/ \E s \in Slots : \E name \in Names : SetName(s, name)
    \/ \E s \in Slots : DataType(s)
    \/ \E s \in Slots : ToJsonString(s, {})
    \/ \E s \in Slots : ToExchangeString(s, {})
    \/ \E s \in Slots : RemoveEntityNumbers(s)
    \/ \E s \in Slots : ReplaceEntityNumbers(s)
    \/ Copy(1, 2)
    \/ NewEmpty(2)
    \/ \E s \in Slots : Redecode(s)
    \/ \E s \in Slots : RedecodeJson(s)

Spec == Init /\ [][Next]_vars

(***************************************************************************)
(* SpecNumbering: a Blueprint read from a JSON string with any numbering of *)
(* its entities (or no entities field), or a BlueprintBook read from a      *)
(* document with no blueprints field, and the calls that walk the           *)
(* collection.                                                              *)
(***************************************************************************)
Attrs == {"entities", "label", "icons"}

InitNumbering ==
    \/ \E text \in NumberingInputs : Loaded(1, "Blueprint", "json", text)
    \/ \E text \in {BareBookText} : Loaded(1, "BlueprintBook", "json", text)

NextNumbering ==
    \/ RemoveEntityNumbers(1)
    \/ ReplaceEntityNumbers(1)
    \/ Materials(1)
    \/ \E attr \in Attrs : GetAttr(1, attr)

SpecNumbering == InitNumbering /\ [][NextNumbering]_vars

(***************************************************************************)
(* SpecBook: a BlueprintBook (empty, or read from a JSON or an exchange     *)
(* string) in slot 1, a Blueprint in slot 2, and the calls on both.         *)
(***************************************************************************)
\* The state after slot 1 = the book r built and
\* slot 2 = Blueprint.from_json_string(text2).
LoadedBook(r, kind, text, text2) ==
    \E b \in {from_json_string(r.h, "Blueprint", text2)} :
    \E plain \in {OneKeyEach(b.h)} :
        /\ heap = b.h
        /\ slot = [x \in Slots |-> IF x = 2 THEN b.val ELSE IF r.exc = "" THEN r.val ELSE None]
        /\ src = [x \in Slots |-> IF x = 2 THEN Src("json", text2, plain)
                                  ELSE IF r.exc = "" THEN Src(kind, text, plain)
                                  ELSE NoSrc]
        /\ result = Res(IF kind = "wire" THEN "from_exchange_string"
                        ELSE IF kind = "json" THEN "from_json_string" ELSE "new", 1, r, <<>>)
        /\ steps = 0

InitBook ==
    \E text2 \in {BlueprintText(<<0>>)} :
        \/ \E r \in {Construct(<<>>, "BlueprintBook", None, Str("0"))} :
              LoadedBook(r, "new", <<>>, text2)
        \/ \E text \in BookInputs : \E r \in {from_json_string(<<>>, "BlueprintBook", text)} :
              LoadedBook(r, "json", text, text2)
        \/ \E text \in {WireString(t) : t \in BookInputs} :
           \E r \in {from_exchange_string(<<>>, "BlueprintBook", text)} :
              LoadedBook(r, "wire", text, text2)

NextBook ==
    \/ \E kwargs \in KwargsInputs : ToJsonString(1, kwargs)
    \/ \E s \in Slots : ToExchangeString(s, {})
    \/ \E s \in Slots : Redecode(s)
    \/ RemoveIndexes(1)
    \/ ReplaceIndexes(1)
    \/ AddBlueprint(1, 2)
    \/ \E s \in Slots : \E name \in Names : SetName(s, name)
    \/ \E s \in Slots : Update(s, "version", Int_(1))
    \/ RemoveEntityNumbers(2)
    \/ ReplaceEntityNumbers(2)

SpecBook == InitBook /\ [][NextBook]_vars

(***************************************************************************)
(* Properties.                                                              *)
(***************************************************************************)
\* A text without its whitespace.
Compact(text) == SelectSeq(text, LAMBDA tok : ~IsWhitespace(tok))

\* The JSON text a call returned: of to_exchange_string, the text its stream
\* decompresses to.
EmittedJson == IF result.op = "to_exchange_string" THEN Tail(Tail(result.text)) ELSE result.text

\* The JSON text an envelope was decoded from.
SourceJson(s) == IF src[s].kind = "wire" THEN Tail(Tail(src[s].text)) ELSE src[s].text

\* C1: for a valid wire string s, from_exchange_string followed by
\* to_exchange_string on the unchanged envelope gives back exactly s: the same
\* version byte and the same JSON text, no whitespace and no field added.
ExchangeRoundTripExact ==
    (result.op = "to_exchange_string" /\ result.exc = "" /\ src[result.self].kind = "wire")
        => result.text = src[result.self].text

\* The elements of the list under blueprint_book.blueprints of a document,
\* and of the document of the book self.
BlueprintsOf(h, doc) ==
    LET book == DictGet(h[doc.n].items, "blueprint_book")
    IN  h[DictGet(h[book.n].items, "blueprints").n].items

BookBlueprints(h, self) == BlueprintsOf(h, h[self.n].data)

Materialized(h, self) ==
    \A i \in 1..Len(BookBlueprints(h, self)) :
        LET e == BookBlueprints(h, self)[i].val IN IsBlob(h, e) /\ h[e.n].cls = "Blueprint"

\* C2: after every public operation, returned or raised, every element of a
\* BlueprintBook's blueprints is a Blueprint object, none a raw document.
BookAlwaysMaterialized ==
    \A s \in Slots : ClassOf(s) = "BlueprintBook" => Materialized(heap, slot[s])

\* The document of an envelope, as text.
DocText(h, self) == json_dumps(h, h[self.n].data)

\* C4: instances share no mutable state: a call on one envelope leaves the
\* document of every other envelope the caller holds as it was.
InstancesIndependent ==
    [][\A s \in Slots :
          (IsRef(slot[s]) /\ slot'[s] = slot[s] /\ steps' = steps + 1 /\ result'.self # s)
              => DocText(heap', slot[s]) = DocText(heap, slot[s])]_vars

\* The documents under blueprint_book.blueprints of a JSON text, each as
\* compact text.
NestedTexts(text) ==
    LET d == json_loads(<<>>, text)
    IN  [i \in 1..Len(BlueprintsOf(d.h, d.val)) |->
            Compact(json_dumps(d.h, BlueprintsOf(d.h, d.val)[i].val).text)]

\* C3: materializing and flattening loses nothing: whatever number of times
\* a book built from a document is serialized, the documents emitted under
\* blueprints are the nested documents it was built from, in the same order,
\* with every field and the same key order.
FlattenLossless ==
    (/\ result.op \in {"to_json_string", "to_exchange_string"}
     /\ result.exc = ""
     /\ ClassOf(result.self) = "BlueprintBook"
     /\ src[result.self].kind \in {"json", "wire"})
        => NestedTexts(EmittedJson) = NestedTexts(SourceJson(result.self))

\* A second or later serialization of a book read from a JSON string with
\* two nested documents, each with an index and an unknown field.
FlattenLosslessWitness ==
    /\ result.op = "to_json_string" /\ result.exc = "" /\ steps >= 2
    /\ ClassOf(result.self) = "BlueprintBook"
    /\ src[result.self].kind = "json"
    /\ Len(NestedTexts(EmittedJson)) = 2
    /\ \A i \in 1..2 : \E j, k \in 1..Len(NestedTexts(EmittedJson)[i]) :
           /\ NestedTexts(EmittedJson)[i][j] = StrTok("unknown")
           /\ NestedTexts(EmittedJson)[i][k] = StrTok("index")

AllPlain == \A s \in Slots : src[s].plain

DocKeys(h, a) == Keys(h[h[a].data.n].items)

\* C5 as stated: every envelope that comes of one-root-key inputs has a
\* document of exactly one top-level key, whatever was called.
OneRootKey == AllPlain => \A a \in Blobs(heap) : Len(DocKeys(heap, a)) = 1

RootKeys == {"blueprint", "blueprint_book"}

\* C5, amended: the first top-level key of every envelope's document is its
\* root key; the only other top-level keys are index, on a Blueprint, and
\* version_byte, and no key occurs twice.
RootKeyFirst ==
    \A a \in Blobs(heap) :
        LET keys == DocKeys(heap, a)
        IN  /\ keys # <<>>
            /\ keys[1] \in RootKeys
            /\ \A i \in 2..Len(keys) :
                   \/ keys[i] = "version_byte"
                   \/ keys[i] = "index" /\ heap[a].cls = "Blueprint"
            /\ \A i, j \in 1..Len(keys) : keys[i] = keys[j] => i = j

\* replace_indexes has given a nested blueprint of one-root-key inputs a
\* second top-level key.
RootKeyFirstWitness ==
    /\ result.op = "replace_indexes" /\ result.exc = "" /\ AllPlain
    /\ \E i \in 1..Len(BookBlueprints(heap, slot[1])) :
           DocKeys(heap, BookBlueprints(heap, slot[1])[i].val.n) = <<"blueprint", "index">>

\* The entity_number (or index) of each element of a collection, None where
\* the element has none.
NumbersOf(elements, key) == [i \in 1..Len(elements) |-> DictGet(elements[i], key)]

Present(numbers) == SelectSeq(numbers, LAMBDA v : v # None)

IsRunFrom(numbers, first) == \A i \in 1..Len(numbers) : numbers[i] = Int_(first + i - 1)

NoneNumbered(elements, key) == \A i \in 1..Len(elements) : ~HasKey(elements[i], key)

\* C6 as stated: remove_entity_numbers fails its assertion exactly when the
\* entity_number values present, in list order, are not 1, 2, 3, ...; when
\* it returns, no entity carries entity_number.
RemoveRaisesIffNotRun ==
    result.op = "remove_entity_numbers" =>
        /\ result.exc = "AssertionError"
               <=> ~IsRunFrom(Present(NumbersOf(result.before, "entity_number")), 1)
        /\ result.exc = ""
               => NoneNumbered(Collection(heap, slot[result.self], "entities"), "entity_number")

\* C6, amended: remove_entity_numbers fails its assertion exactly when some
\* entity carries an entity_number other than its position in the list,
\* counted from 1 over all entities, numbered or not; when it returns, no
\* entity carries entity_number.
RemoveRaisesIffMisplaced ==
    result.op = "remove_entity_numbers" =>
        /\ result.exc = "AssertionError"
               <=> \E i \in 1..Len(result.before) :
                       DictGet(result.before[i], "entity_number") \notin {None, Int_(i)}
        /\ result.exc = ""
               => NoneNumbered(Collection(heap, slot[result.self], "entities"), "entity_number")

\* The assertion failed on numbers that, read without the gaps, are 1, 2, ...
RemoveRaisesWitness ==
    /\ result.op = "remove_entity_numbers" /\ result.exc = "AssertionError"
    /\ Len(Present(NumbersOf(result.before, "entity_number"))) >= 2
    /\ IsRunFrom(Present(NumbersOf(result.before, "entity_number")), 1)

\* C7 as stated: data_type returns the single top-level key, and fails when
\* the document has no top-level key or more than one.
DataTypeStrict ==
    result.op = "data_type" =>
        LET items == DataItems(heap, slot[result.self])
        IN  IF Len(items) = 1 THEN result.exc = "" /\ result.val = Str(items[1].key)
            ELSE result.exc # ""

\* C7, amended: data_type returns the first top-level key of a document that
\* has one or more, and fails only on a document with none.
DataTypeFirstKey ==
    result.op = "data_type" =>
        LET items == DataItems(heap, slot[result.self])
        IN  IF items = <<>> THEN result.exc = "StopIteration"
            ELSE result.exc = "" /\ result.val = Str(items[1].key)

\* data_type has returned the first of two top-level keys.
DataTypeWitness ==
    /\ result.op = "data_type" /\ result.exc = ""
    /\ Len(DataItems(heap, slot[result.self])) = 2
    /\ result.val = Str("blueprint")

\* C8: add_blueprint calls followed by replace_indexes leave the i-th nested
\* blueprint, counted from 0, with index i; add_blueprint appends the
\* blueprint at the end as it is and changes no other.
IndexesFollowInsertion ==
    /\ (result.op = "replace_indexes" /\ result.exc = "")
           => IsRunFrom(NumbersOf(Collection(heap, slot[result.self], "blueprints"), "index"), 0)
    /\ (result.op = "add_blueprint" /\ result.exc = "")
           => Collection(heap, slot[result.self], "blueprints")
                  = Append(result.before, ElementItems(heap, slot[2]))

\* C9: replace_entity_numbers gives every entity its position, counted from
\* 1, as entity_number and changes no other field, whatever the numbers
\* were; remove_entity_numbers called next returns and leaves no entity
\* numbered.
ReplaceNumbersByPosition ==
    (result.op = "replace_entity_numbers" /\ result.exc = "") =>
        LET after == Collection(heap, slot[result.self], "entities")
            removed == remove_entity_numbers(heap, slot[result.self])
        IN  /\ Len(after) = Len(result.before)
            /\ IsRunFrom(NumbersOf(after, "entity_number"), 1)
            /\ \A i \in 1..Len(after) :
                   DictPop(after[i], "entity_number") = DictPop(result.before[i], "entity_number")
            /\ removed.exc = ""
            /\ NoneNumbered(Collection(removed.h, slot[result.self], "entities"), "entity_number")

\* replace_entity_numbers has renumbered entities of which one had a number
\* that was not its position and another had none.
ReplaceNumbersWitness ==
    /\ result.op = "replace_entity_numbers" /\ result.exc = ""
    /\ \E i, j \in 1..Len(result.before) :
           /\ DictGet(result.before[i], "entity_number") \notin {None, Int_(i)}
           /\ ~HasKey(result.before[j], "entity_number")

\* Whether the payload of the envelope self has the field.
HasField(h, self, attr) ==
    LET p == inner_data(h, self)
    IN  p.exc = "" /\ IsDict(h, p.val) /\ HasKey(h[p.val.n].items, attr)

WalkOps == {"materials", "remove_entity_numbers", "replace_entity_numbers"}

\* C10 as stated: reading an absent field is no error, and a blueprint with
\* no entities field is one with no entities: materials() returns an empty
\* tally and the numbering methods return.
AbsentIsEmpty ==
    /\ result.op = "getattr" => result.exc = ""
    /\ (result.op \in WalkOps /\ ~HasField(heap, slot[result.self], "entities"))
           => result.exc = "" /\ result.tally = <<>>

\* C10, amended: reading an absent field gives None and is no error; on a
\* blueprint with no entities field materials() and the numbering methods
\* raise TypeError and change nothing; a BlueprintBook cannot be built from a
\* document with no blueprints field (KeyError).
AbsentIsNone ==
    /\ []((result.op = "from_json_string" /\ result.exc # "")
             => result.exc = "KeyError" /\ slot[1] = None)
    /\ [][steps' = steps + 1 =>
            /\ (result'.op = "getattr" /\ ~HasField(heap, slot[1], result'.before[1][1].key))
                   => result'.exc = "" /\ result'.val = None /\ heap' = heap
            /\ (result'.op \in WalkOps /\ ~HasField(heap, slot[1], "entities"))
                   => result'.exc = "TypeError" /\ heap' = heap]_vars

\* materials() has raised TypeError on a blueprint with no entities field.
AbsentWitness ==
    /\ result.op = "materials" /\ result.exc = "TypeError"
    /\ ~HasField(heap, slot[result.self], "entities")

====
